---- MODULE Spec2Model ----
(***************************************************************************)
(* Model of kubelet_stats_exporter/collector.py: the KubeletCollector      *)
(* custom collector.  One collector object lives for the whole process;    *)
(* every scrape calls collect(), which lists the nodes, submits one        *)
(* scrape_node_metrics unit per node to a thread pool, joins the futures   *)
(* kept in self.futures and yields the three GaugeMetricFamily objects     *)
(* built once in __init__.                                                 *)
(***************************************************************************)
EXTENDS Integers, Sequences, FiniteSets, TLC

VARIABLES
    ephemeral_storage_metric,   \* samples of self.ephemeral_storage_metric
    pod_cpu_usage_metric,       \* samples of self.pod_cpu_usage_metric
    container_cpu_usage_metric, \* samples of self.container_cpu_usage_metric
    futures,                    \* self.futures, each entry with its unit's state
    gen,                        \* the collect() generators, one per call
    cycle                       \* number of collect() calls made so far

vars == <<ephemeral_storage_metric, pod_cpu_usage_metric,
          container_cpu_usage_metric, futures, gen, cycle>>

(***************************************************************************)
(* Bounds of the model.                                                    *)
(***************************************************************************)
MaxNodes == 2     \* node names are 1..MaxNodes
MaxCycles == 2    \* collect() is called at most MaxCycles times
MaxPods == 2      \* a summary carries at most MaxPods pod entries
MaxFutures == 2   \* self.futures grows to at most MaxFutures entries

Cycles == 1..MaxCycles

(***************************************************************************)
(* JSON payload.  An optional key is the empty sequence when the key is    *)
(* absent and a one-element sequence holding its value when present.       *)
(***************************************************************************)
Absent == <<>>
Some(v) == <<v>>
Has(o) == o # <<>>
Val(o) == o[1]
None == "None"

NanoPerCore == 1000000000

\* to_cores: nano_cores / 1000000000, kept as the exact quotient
to_cores(nano_cores) == [num |-> nano_cores, den |-> NanoPerCore]

Container(name, nano) == [name |-> name, cpu |-> nano]
PodRef(name, namespace) == [name |-> name, namespace |-> namespace]
Pod(ref, eph, cpu, ctrs) ==
    [podRef |-> ref, eph |-> eph, cpu |-> cpu, containers |-> ctrs]

\* a complete pod record with two containers
PodFull ==
    Pod(Some(PodRef(Some("web"), Some("default"))), Some(4096), Some(500000000),
        Some(<<Container(Some("app"), Some(250000000)),
               Container(Some("sidecar"), Some(125000000))>>))
\* a pod record with identity only
PodBare ==
    Pod(Some(PodRef(Some("job"), Some("batch"))), Absent, Absent, Absent)
\* a pod record without podRef
PodNoRef == Pod(Absent, Some(1), Some(1000000000), Absent)

PodCatalogue == {PodFull, PodBare, PodNoRef}

RECURSIVE SeqsUpTo(_, _)
SeqsUpTo(S, n) ==
    IF n = 0 THEN {<<>>}
    ELSE LET shorter == SeqsUpTo(S, n - 1)
         IN shorter \cup {Append(s, x) : s \in {t \in shorter : Len(t) = n - 1}, x \in S}

PodLists == SeqsUpTo(PodCatalogue, MaxPods)

(***************************************************************************)
(* What the kubelet summary endpoint can answer to one requests.get.       *)
(***************************************************************************)
Resp(kind, pods) == [kind |-> kind, pods |-> pods]
NoResp == Resp("none", <<>>)
Responses ==
    {Resp("ConnectTimeout", <<>>),   \* requests.ConnectTimeout
     Resp("TransportError", <<>>),   \* any other exception of requests.get
     Resp("NotJSON", <<>>),          \* a body response.json() cannot decode
     Resp("NoPodsKey", <<>>)}        \* a JSON object without 'pods'
    \cup {Resp("Summary", ps) : ps \in PodLists}

(***************************************************************************)
(* Nodes as list_node() returns them: a name and status.conditions.        *)
(***************************************************************************)
Cond(type, status) == [type |-> type, status |-> status]
ConditionLists ==
    {<<Cond("MemoryPressure", "False"), Cond("Ready", "True")>>,
     <<Cond("MemoryPressure", "False"), Cond("Ready", "False")>>,
     <<Cond("MemoryPressure", "True")>>}

Node(name, conds) == [name |-> name, conditions |-> conds]

RECURSIVE NodeListsFrom(_)
NodeListsFrom(n) ==
    IF n > MaxNodes THEN {<<>>}
    ELSE LET rest == NodeListsFrom(n + 1)
         IN rest \cup {<<Node(n, c)>> \o r : c \in ConditionLists, r \in rest}

\* the node lists list_node() may return: any subset of the names, by name
NodeLists == NodeListsFrom(1)

(***************************************************************************)
(* get_node_info: the value returned, or the exception that leaves it.     *)
(* ConnectTimeout is logged and falls through to `return response.json()`  *)
(* with `response` never bound; any other exception returns None; a body   *)
(* is decoded outside the try block.                                       *)
(***************************************************************************)
Returned(isNone, hasPods, pods) ==
    [exc |-> "none", isNone |-> isNone, hasPods |-> hasPods, pods |-> pods]
Raised(exc) == [exc |-> exc, isNone |-> TRUE, hasPods |-> FALSE, pods |-> <<>>]

get_node_info(resp) ==
    CASE resp.kind = "ConnectTimeout" -> Raised("UnboundLocalError")
      [] resp.kind = "TransportError" -> Returned(TRUE, FALSE, <<>>)
      [] resp.kind = "NotJSON" -> Raised("JSONDecodeError")
      [] resp.kind = "NoPodsKey" -> Returned(FALSE, FALSE, <<>>)
      [] OTHER -> Returned(FALSE, TRUE, resp.pods)

(***************************************************************************)
(* get_pod_metrics.  A dict is a sequence of <<key, value>> pairs in       *)
(* insertion order.                                                        *)
(***************************************************************************)
RECURSIVE DictSet(_, _, _)
DictSet(d, k, v) ==
    IF d = <<>> THEN <<<<k, v>>>>
    ELSE IF Head(d)[1] = k THEN <<<<k, v>>>> \o Tail(d)
    ELSE <<Head(d)>> \o DictSet(Tail(d), k, v)

\* the container loop with a missing cpu.usageNanoCores defaulted to 0
RECURSIVE ContainerLoop_ZeroDefault(_, _)
ContainerLoop_ZeroDefault(containers, acc) ==
    IF containers = <<>> THEN acc
    ELSE LET container == Head(containers)
         IN IF Has(container.name)
            THEN ContainerLoop_ZeroDefault(Tail(containers),
                     DictSet(acc, Val(container.name),
                             to_cores(IF Has(container.cpu) THEN Val(container.cpu) ELSE 0)))
            ELSE acc

\* the for loop of lines 127-128 inside its try: the first container
\* without name or cpu.usageNanoCores ends the loop, entries made so far stay
RECURSIVE ContainerLoop(_, _)
ContainerLoop(containers, acc) ==
    IF containers = <<>> THEN acc
    ELSE LET container == Head(containers)
         IN IF Has(container.name) /\ Has(container.cpu)
            THEN ContainerLoop(Tail(containers),
                     DictSet(acc, Val(container.name), to_cores(Val(container.cpu))))
            ELSE acc

PodMetrics(exc, name, namespace, used_bytes, usage_cores, container_usage_cores) ==
    [exc |-> exc, name |-> name, namespace |-> namespace,
     used_bytes |-> used_bytes, usage_cores |-> usage_cores,
     container_usage_cores |-> container_usage_cores]

\* get_pod_metrics with pod_id["containers"] read outside its try
get_pod_metrics_ContainersUnguarded(pod_id) ==
    IF ~Has(pod_id.podRef) \/ ~Has(Val(pod_id.podRef).name)
          \/ ~Has(Val(pod_id.podRef).namespace) \/ ~Has(pod_id.containers)
    THEN PodMetrics("KeyError", None, None, 0, to_cores(0), <<>>)
    ELSE PodMetrics("none",
             Val(Val(pod_id.podRef).name),
             Val(Val(pod_id.podRef).namespace),
             IF Has(pod_id.eph) THEN Val(pod_id.eph) ELSE 0,
             to_cores(IF Has(pod_id.cpu) THEN Val(pod_id.cpu) ELSE 0),
             ContainerLoop(Val(pod_id.containers), <<>>))

\* get_pod_metrics with usedBytes and usageNanoCores read under one try
get_pod_metrics_OneTry(pod_id) ==
    IF ~Has(pod_id.podRef) \/ ~Has(Val(pod_id.podRef).name)
          \/ ~Has(Val(pod_id.podRef).namespace)
    THEN PodMetrics("KeyError", None, None, 0, to_cores(0), <<>>)
    ELSE PodMetrics("none",
             Val(Val(pod_id.podRef).name),
             Val(Val(pod_id.podRef).namespace),
             IF Has(pod_id.eph) /\ Has(pod_id.cpu) THEN Val(pod_id.eph) ELSE 0,
             to_cores(IF Has(pod_id.eph) /\ Has(pod_id.cpu) THEN Val(pod_id.cpu) ELSE 0),
             IF Has(pod_id.containers)
                THEN ContainerLoop(Val(pod_id.containers), <<>>)
                ELSE <<>>)

get_pod_metrics(pod_id) ==
    IF ~Has(pod_id.podRef) \/ ~Has(Val(pod_id.podRef).name)
          \/ ~Has(Val(pod_id.podRef).namespace)
    THEN PodMetrics("KeyError", None, None, 0, to_cores(0), <<>>)
    ELSE PodMetrics("none",
             Val(Val(pod_id.podRef).name),
             Val(Val(pod_id.podRef).namespace),
             IF Has(pod_id.eph) THEN Val(pod_id.eph) ELSE 0,
             to_cores(IF Has(pod_id.cpu) THEN Val(pod_id.cpu) ELSE 0),
             IF Has(pod_id.containers)
                THEN ContainerLoop(Val(pod_id.containers), <<>>)
                ELSE <<>>)

\* GaugeMetricFamily.add_metric appends one sample
Sample(labels, value) == [labels |-> labels, value |-> value]
add_metric(metric, labels, value) == Append(metric, Sample(labels, value))

(***************************************************************************)
(* State after __init__: no future, three metric families without samples. *)
(***************************************************************************)
NewGen == [pc |-> "Start", nodes |-> <<>>, max_workers |-> 0, k |-> 0, j |-> 0,
           exc |-> "none", out |-> <<>>]

Init ==
    /\ ephemeral_storage_metric = <<>>
    /\ pod_cpu_usage_metric = <<>>
    /\ container_cpu_usage_metric = <<>>
    /\ futures = <<>>
    /\ gen = [c \in Cycles |-> NewGen]
    /\ cycle = 0

Ended(c) == gen[c].pc \in {"Emitted", "Raised"}

\* the nodes that the cycles up to c have listed and not yet submitted
RECURSIVE Pending(_)
Pending(c) ==
    IF c = 0 THEN 0
    ELSE Pending(c - 1) +
         (CASE gen[c].pc = "NodesListed" -> Len(gen[c].nodes)
            [] gen[c].pc = "Dispatching" -> Len(gen[c].nodes) - gen[c].k + 1
            [] OTHER -> 0)

(***************************************************************************)
(* collect()                                                               *)
(***************************************************************************)
\* line 48: nodes = self.k8s_client.list_node()
collect_list_node(c) ==
    /\ c = cycle + 1
    /\ c \in Cycles
    /\ gen[c].pc = "Start"
    /\ \E nodes \in NodeLists :
          /\ Len(futures) + Pending(MaxCycles) + Len(nodes) <= MaxFutures
          /\ gen' = [gen EXCEPT ![c].pc = "NodesListed", ![c].nodes = nodes]
    /\ cycle' = c
    /\ UNCHANGED <<ephemeral_storage_metric, pod_cpu_usage_metric,
                   container_cpu_usage_metric, futures>>

\* line 51: ThreadPoolExecutor(max_workers=len(nodes.items)); the constructor
\* raises ValueError when max_workers <= 0
collect_executor(c) ==
    /\ gen[c].pc = "NodesListed"
    /\ gen' = IF Len(gen[c].nodes) <= 0
              THEN [gen EXCEPT ![c].pc = "Raised", ![c].exc = "ValueError"]
              ELSE [gen EXCEPT ![c].pc = "Dispatching", ![c].k = 1,
                               ![c].max_workers = Len(gen[c].nodes)]
    /\ UNCHANGED <<ephemeral_storage_metric, pod_cpu_usage_metric,
                   container_cpu_usage_metric, futures, cycle>>

NewFuture(c, node) ==
    [cycle |-> c, node |-> node, pc |-> "submitted", resp |-> NoResp,
     idx |-> 0, cidx |-> 0, exc |-> "none"]

\* lines 54-55: one submit per node, appended to self.futures
collect_submit(c) ==
    /\ gen[c].pc = "Dispatching"
    /\ futures' = Append(futures, NewFuture(c, gen[c].nodes[gen[c].k]))
    /\ gen' = IF gen[c].k = Len(gen[c].nodes)
              THEN [gen EXCEPT ![c].pc = "Joining", ![c].j = 1]
              ELSE [gen EXCEPT ![c].k = @ + 1]
    /\ UNCHANGED <<ephemeral_storage_metric, pod_cpu_usage_metric,
                   container_cpu_usage_metric, cycle>>

\* the join loop with result() returning without waiting for the unit
collect_join_NoWait(c) ==
    /\ gen[c].pc = "Joining"
    /\ gen[c].j <= Len(futures)
    /\ gen' = IF futures[gen[c].j].pc = "raised"
              THEN [gen EXCEPT ![c].pc = "Raised", ![c].exc = futures[gen[c].j].exc]
              ELSE IF gen[c].j = Len(futures)
              THEN [gen EXCEPT ![c].pc = "AllJoined"]
              ELSE [gen EXCEPT ![c].j = @ + 1]
    /\ UNCHANGED <<ephemeral_storage_metric, pod_cpu_usage_metric,
                   container_cpu_usage_metric, futures, cycle>>

\* lines 57-58: future.result() over self.futures, from its first entry;
\* result() blocks until the unit is over and re-raises its exception
collect_join(c) ==
    /\ gen[c].pc = "Joining"
    /\ gen[c].j <= Len(futures)
    /\ futures[gen[c].j].pc \in {"done", "raised"}
    /\ gen' = IF futures[gen[c].j].pc = "raised"
              THEN [gen EXCEPT ![c].pc = "Raised", ![c].exc = futures[gen[c].j].exc]
              ELSE IF gen[c].j = Len(futures)
              THEN [gen EXCEPT ![c].pc = "AllJoined"]
              ELSE [gen EXCEPT ![c].j = @ + 1]
    /\ UNCHANGED <<ephemeral_storage_metric, pod_cpu_usage_metric,
                   container_cpu_usage_metric, futures, cycle>>

\* lines 61-63: the three yields; the consumer reads each family as handed over
collect_yield(c) ==
    /\ gen[c].pc = "AllJoined"
    /\ LET n == Len(gen[c].out)
           family == CASE n = 0 -> ephemeral_storage_metric
                       [] n = 1 -> pod_cpu_usage_metric
                       [] OTHER -> container_cpu_usage_metric
       IN gen' = [gen EXCEPT ![c].out = Append(@, family),
                             ![c].pc = IF n = 2 THEN "Emitted" ELSE @]
    /\ UNCHANGED <<ephemeral_storage_metric, pod_cpu_usage_metric,
                   container_cpu_usage_metric, futures, cycle>>

(***************************************************************************)
(* scrape_node_metrics, run by a pool thread for futures[i].               *)
(***************************************************************************)
\* line 148: ready_status = [x for x in node.status.conditions if x.type == 'Ready']
ready_status(node) == SelectSeq(node.conditions, LAMBDA x : x.type = "Ready")

\* line 149
IsReady(node) ==
    /\ Len(ready_status(node)) > 0
    /\ ready_status(node)[1].status = "True"

Pods(f) == f.resp.pods
Metrics(f) == get_pod_metrics(Pods(f)[f.idx])

\* AtPod with the loop ending one entry early
AtPod_SkipsLast(f, idx) ==
    IF idx >= Len(Pods(f)) THEN [f EXCEPT !.pc = "done", !.idx = idx, !.cidx = 0]
    ELSE [f EXCEPT !.pc = "pod", !.idx = idx, !.cidx = 0]

\* the unit at the head of the `for pod in node_info['pods']` loop, at pod idx
AtPod(f, idx) ==
    IF idx > Len(Pods(f)) THEN [f EXCEPT !.pc = "done", !.idx = idx, !.cidx = 0]
    ELSE [f EXCEPT !.pc = "pod", !.idx = idx, !.cidx = 0]

\* the unit at the head of the container loop of line 158, at item cidx
AtContainer(f, cidx) ==
    IF cidx > Len(Metrics(f).container_usage_cores) THEN AtPod(f, f.idx + 1)
    ELSE [f EXCEPT !.pc = "container", !.cidx = cidx]

\* scrape_check_ready without the test of line 149
scrape_check_ready_Unconditional(i) ==
    /\ i \in DOMAIN futures
    /\ futures[i].pc = "submitted"
    /\ futures' = [futures EXCEPT ![i].pc = "fetch"]
    /\ UNCHANGED <<ephemeral_storage_metric, pod_cpu_usage_metric,
                   container_cpu_usage_metric, gen, cycle>>

\* lines 145-149 and 165: the readiness check; a node not Ready is only logged
scrape_check_ready(i) ==
    /\ i \in DOMAIN futures
    /\ futures[i].pc = "submitted"
    /\ futures' = [futures EXCEPT ![i].pc =
                      IF IsReady(futures[i].node) THEN "fetch" ELSE "done"]
    /\ UNCHANGED <<ephemeral_storage_metric, pod_cpu_usage_metric,
                   container_cpu_usage_metric, gen, cycle>>

\* lines 151-152 and 163: the request, its outcome, and the test of node_info
scrape_fetch(i, answers) ==
    /\ i \in DOMAIN futures
    /\ futures[i].pc = "fetch"
    /\ \E resp \in answers :
          LET node_info == get_node_info(resp)
              f == [futures[i] EXCEPT !.resp = resp]
          IN futures' = [futures EXCEPT ![i] =
                 IF node_info.exc # "none"
                 THEN [f EXCEPT !.pc = "raised", !.exc = node_info.exc]
                 ELSE IF ~node_info.isNone /\ node_info.hasPods
                 THEN AtPod(f, 1)
                 ELSE [f EXCEPT !.pc = "done"]]
    /\ UNCHANGED <<ephemeral_storage_metric, pod_cpu_usage_metric,
                   container_cpu_usage_metric, gen, cycle>>

scrape_get_node_info(i) == scrape_fetch(i, Responses)

\* lines 154-156: get_pod_metrics(pod) and the ephemeral-storage sample; an
\* exception of get_pod_metrics leaves scrape_node_metrics
scrape_pod(i) ==
    /\ i \in DOMAIN futures
    /\ futures[i].pc = "pod"
    /\ LET f == futures[i]
           m == Metrics(f)
       IN IF m.exc # "none"
          THEN /\ futures' = [futures EXCEPT ![i].pc = "raised", ![i].exc = m.exc]
               /\ UNCHANGED ephemeral_storage_metric
          ELSE /\ ephemeral_storage_metric' =
                     add_metric(ephemeral_storage_metric,
                                <<f.node.name, m.namespace, m.name>>, m.used_bytes)
               /\ futures' = [futures EXCEPT ![i].pc = "cpu"]
    /\ UNCHANGED <<pod_cpu_usage_metric, container_cpu_usage_metric, gen, cycle>>

\* line 157: the pod CPU sample
scrape_pod_cpu(i) ==
    /\ i \in DOMAIN futures
    /\ futures[i].pc = "cpu"
    /\ LET f == futures[i]
           m == Metrics(f)
       IN /\ pod_cpu_usage_metric' =
                add_metric(pod_cpu_usage_metric,
                           <<f.node.name, m.namespace, m.name>>, m.usage_cores)
          /\ futures' = [futures EXCEPT ![i] = AtContainer(f, 1)]
    /\ UNCHANGED <<ephemeral_storage_metric, container_cpu_usage_metric, gen, cycle>>

\* lines 158-160: one container CPU sample
scrape_container(i) ==
    /\ i \in DOMAIN futures
    /\ futures[i].pc = "container"
    /\ LET f == futures[i]
           m == Metrics(f)
           item == m.container_usage_cores[f.cidx]
       IN /\ container_cpu_usage_metric' =
                add_metric(container_cpu_usage_metric,
                           <<f.node.name, m.namespace, m.name, item[1]>>, item[2])
          /\ futures' = [futures EXCEPT ![i] = AtContainer(f, f.cidx + 1)]
    /\ UNCHANGED <<ephemeral_storage_metric, pod_cpu_usage_metric, gen, cycle>>

(***************************************************************************)
(* Scrapes that follow one another: a collect() starts when the one        *)
(* before it is over.                                                      *)
(***************************************************************************)
Sequential(c) == \A d \in Cycles : d < c => Ended(d)

Next ==
    \/ \E c \in Cycles : Sequential(c) /\ collect_list_node(c)
    \/ \E c \in Cycles : collect_executor(c)
    \/ \E c \in Cycles : collect_submit(c)
    \/ \E c \in Cycles : collect_join(c)
    \/ \E c \in Cycles : collect_yield(c)
    \/ \E i \in 1..MaxFutures : scrape_check_ready(i)
    \/ \E i \in 1..MaxFutures : scrape_get_node_info(i)
    \/ \E i \in 1..MaxFutures : scrape_pod(i)
    \/ \E i \in 1..MaxFutures : scrape_pod_cpu(i)
    \/ \E i \in 1..MaxFutures : scrape_container(i)

Spec == Init /\ [][Next]_vars

(***************************************************************************)
(* Scrapes served by separate threads on the one collector: a collect()    *)
(* may start while an earlier one is still running.                        *)
(***************************************************************************)
NextConcurrent ==
    \/ \E c \in Cycles : collect_list_node(c)
    \/ \E c \in Cycles : collect_executor(c)
    \/ \E c \in Cycles : collect_submit(c)
    \/ \E c \in Cycles : collect_join(c)
    \/ \E c \in Cycles : collect_yield(c)
    \/ \E i \in 1..MaxFutures : scrape_check_ready(i)
    \/ \E i \in 1..MaxFutures : scrape_get_node_info(i)
    \/ \E i \in 1..MaxFutures : scrape_pod(i)
    \/ \E i \in 1..MaxFutures : scrape_pod_cpu(i)
    \/ \E i \in 1..MaxFutures : scrape_container(i)

SpecConcurrent == Init /\ [][NextConcurrent]_vars

(***************************************************************************)
(* One scrape of one Ready node whose summary holds a single pod entry,    *)
(* the entry drawn from every combination of present, absent and null      *)
(* keys that get_pod_metrics reads.                                        *)
(***************************************************************************)
MaxContainers == 2   \* a pod entry lists at most MaxContainers containers

OptionalNames(names) == {Absent, Some(None)} \cup {Some(n) : n \in names}

PodRefs ==
    {Absent} \cup {Some(PodRef(n, ns)) : n \in OptionalNames({"web"}),
                                         ns \in OptionalNames({"default"})}
ContainerEntries ==
    {Container(n, u) : n \in OptionalNames({"app", "sidecar"}),
                       u \in {Absent, Some(250000000)}}
ContainerLists ==
    {Absent} \cup {Some(cs) : cs \in SeqsUpTo(ContainerEntries, MaxContainers)}
PodEntries ==
    {Pod(ref, eph, cpu, cs) : ref \in PodRefs, eph \in {Absent, Some(4096)},
                              cpu \in {Absent, Some(500000000)}, cs \in ContainerLists}
PodEntryResponses == {Resp("Summary", <<pod>>) : pod \in PodEntries}

OneReadyNode == {nodes \in NodeLists : Len(nodes) = 1 /\ IsReady(nodes[1])}

NextPodEntry ==
    \/ collect_list_node(1) /\ gen'[1].nodes \in OneReadyNode
    \/ collect_executor(1)
    \/ collect_submit(1)
    \/ collect_join(1)
    \/ collect_yield(1)
    \/ scrape_check_ready(1)
    \/ scrape_fetch(1, PodEntryResponses)
    \/ scrape_pod(1)
    \/ scrape_pod_cpu(1)
    \/ scrape_container(1)

SpecPodEntry == Init /\ [][NextPodEntry]_vars

(***************************************************************************)
(* Vocabulary of the properties.                                           *)
(***************************************************************************)
UnitsOf(c) == {i \in DOMAIN futures : futures[i].cycle = c}
Finished(i) == futures[i].pc \in {"done", "raised"}
Emitted(c) == gen[c].pc = "Emitted"

\* what the payload itself says, read without the parser
HasIdentity(pod) ==
    /\ Has(pod.podRef)
    /\ Has(Val(pod.podRef).name)
    /\ Has(Val(pod.podRef).namespace)
PodLabels(node_name, pod) ==
    <<node_name, Val(Val(pod.podRef).namespace), Val(Val(pod.podRef).name)>>
ContainerNames(pod) ==
    IF Has(pod.containers)
    THEN {Val(ct.name) : ct \in {x \in {Val(pod.containers)[n] : n \in DOMAIN Val(pod.containers)} :
                                      Has(x.name) /\ Has(x.cpu)}}
    ELSE {}

Count(metric, labels) == Cardinality({n \in DOMAIN metric : metric[n].labels = labels})
OfNode(metric, node_name) == {n \in DOMAIN metric : metric[n].labels[1] = node_name}
LabelsIn(metric) == {metric[n].labels : n \in DOMAIN metric}
SameLabels(a, b) ==
    \A l \in LabelsIn(a) \cup LabelsIn(b) : Count(a, l) = Count(b, l)

\* the fetch of unit i returned a summary whose pods all carry an identity
ValidSummary(i) ==
    /\ futures[i].resp.kind = "Summary"
    /\ \A n \in DOMAIN Pods(futures[i]) : HasIdentity(Pods(futures[i])[n])
Unreachable(i) == futures[i].resp.kind \in {"ConnectTimeout", "TransportError"}

\* the yielded collections of cycle c hold every series of unit i's summary
Represented(c, i) ==
    \A n \in DOMAIN Pods(futures[i]) :
        LET pod == Pods(futures[i])[n]
            labels == PodLabels(futures[i].node.name, pod)
        IN HasIdentity(pod) =>
              /\ Count(gen[c].out[1], labels) >= 1
              /\ Count(gen[c].out[2], labels) >= 1
              /\ \A cn \in ContainerNames(pod) :
                    Count(gen[c].out[3], Append(labels, cn)) >= 1

\* the yielded collections of cycle c hold no series of the node of unit i
Excluded(c, i) ==
    \A m \in DOMAIN gen[c].out : OfNode(gen[c].out[m], futures[i].node.name) = {}

(***************************************************************************)
(* C1: in one collect() cycle, a Ready node whose fetch ends in a          *)
(* connection timeout contributes zero series, and every other Ready node  *)
(* that returned a valid summary still has all of its series in the        *)
(* collections that cycle yields.                                          *)
(***************************************************************************)
C1_TimeoutNodeIsolated ==
    \A c \in Cycles : \A k \in UnitsOf(c) :
        ( /\ Ended(c)
          /\ futures[k].resp.kind = "ConnectTimeout"
          /\ \E i \in UnitsOf(c) : ValidSummary(i) /\ Pods(futures[i]) # <<>>
          /\ \A i \in UnitsOf(c) :
                /\ Finished(i)
                /\ \/ futures[i].resp.kind = "ConnectTimeout"
                   \/ ValidSummary(i)
                   \/ ~IsReady(futures[i].node) )
        => /\ Emitted(c)
           /\ Excluded(c, k)
           /\ \A i \in UnitsOf(c) : ValidSummary(i) => Represented(c, i)

(***************************************************************************)
(* C2: whatever the fetch outcomes of its nodes, a collect() cycle over    *)
(* at least one node does not end by raising, and when every node of the   *)
(* cycle is unreachable the three yielded collections are empty.           *)
(***************************************************************************)
C2_CycleAlwaysEmits ==
    \A c \in Cycles :
        /\ Len(gen[c].nodes) > 0 => gen[c].pc # "Raised"
        /\ ( /\ Emitted(c)
             /\ \A i \in UnitsOf(c) : Unreachable(i) )
           => \A m \in DOMAIN gen[c].out : gen[c].out[m] = <<>>

\* cycles c and d saw the same cluster: same node list, same answer per node
SameCluster(c, d) ==
    /\ gen[c].nodes = gen[d].nodes
    /\ \A i \in UnitsOf(c) : \A k \in UnitsOf(d) :
          futures[i].node.name = futures[k].node.name
             => futures[i].resp = futures[k].resp

AllFinished(c) ==
    /\ Cardinality(UnitsOf(c)) = Len(gen[c].nodes)
    /\ \A i \in UnitsOf(c) : Finished(i)

(***************************************************************************)
(* C3: two collect() cycles in sequence against an unchanged cluster (same *)
(* nodes, same readiness, same summaries) end the same way and yield, in   *)
(* each of the three collections, the same multiset of label tuples.       *)
(***************************************************************************)
C3_ConsecutiveCyclesIdentical ==
    \A c \in Cycles : \A d \in Cycles :
        ( /\ d = c + 1
          /\ Ended(c) /\ Ended(d)
          /\ AllFinished(c) /\ AllFinished(d)
          /\ SameCluster(c, d) )
        => /\ gen[d].pc = gen[c].pc
           /\ Len(gen[d].out) = Len(gen[c].out)
           /\ \A m \in DOMAIN gen[c].out : SameLabels(gen[c].out[m], gen[d].out[m])

(***************************************************************************)
(* C4: every series in the collections a cycle yields comes from that      *)
(* cycle's node list and summaries: its node is in the cycle's node list   *)
(* and its pod (and container) is in the summary that node returned in     *)
(* that cycle.                                                             *)
(***************************************************************************)
C4_NoCrossCycleRetention ==
    \A c \in Cycles : \A m \in DOMAIN gen[c].out : \A n \in DOMAIN gen[c].out[m] :
        LET labels == gen[c].out[m][n].labels
        IN \E i \in UnitsOf(c) : \E p \in DOMAIN Pods(futures[i]) :
              LET pod == Pods(futures[i])[p]
              IN /\ HasIdentity(pod)
                 /\ SubSeq(labels, 1, 3) = PodLabels(futures[i].node.name, pod)
                 /\ m = 3 => labels[4] \in ContainerNames(pod)

(***************************************************************************)
(* C5: after a cycle in which a unit failed, the next collect() cycle in   *)
(* which every Ready node answers with a valid summary completes without   *)
(* raising and yields the series of every Ready node.                      *)
(***************************************************************************)
C5_CyclesIndependent ==
    \A c \in Cycles : \A d \in Cycles :
        ( /\ d = c + 1
          /\ \E i \in UnitsOf(c) : futures[i].pc = "raised"
          /\ Ended(d)
          /\ \E i \in UnitsOf(d) : ValidSummary(i)
          /\ AllFinished(d)
          /\ \A i \in UnitsOf(d) : ValidSummary(i) \/ ~IsReady(futures[i].node) )
        => /\ Emitted(d)
           /\ \A i \in UnitsOf(d) : ValidSummary(i) => Represented(d, i)

(***************************************************************************)
(* C6: a Ready node whose fetch returns an undecodable body or a JSON      *)
(* document without a pods key makes its unit end without raising, and the *)
(* cycle, if its other nodes are fine, emits with no series of that node   *)
(* and with the series of the other nodes.                                 *)
(***************************************************************************)
Malformed(i) == futures[i].resp.kind \in {"NotJSON", "NoPodsKey"}

C6_MalformedPayloadHandled ==
    \A c \in Cycles : \A k \in UnitsOf(c) :
        Malformed(k) =>
           /\ futures[k].pc = "done"
           /\ futures[k].exc = "none"
           /\ ( /\ Ended(c)
                /\ AllFinished(c)
                /\ \A i \in UnitsOf(c) :
                      Malformed(i) \/ ValidSummary(i) \/ ~IsReady(futures[i].node) )
              => /\ Emitted(c)
                 /\ \A i \in UnitsOf(c) : ValidSummary(i) => Represented(c, i)

(***************************************************************************)
(* C7: a pod entry without podRef (or its name or namespace) is skipped:   *)
(* the unit that meets it ends without raising, every pod entry of the     *)
(* same summary that has an identity, before or after it, has its series   *)
(* in the pod-level collections, and the cycle does not raise.             *)
(***************************************************************************)
C7_UnidentifiedPodSkipped ==
    \A c \in Cycles : \A k \in UnitsOf(c) :
        ( /\ futures[k].resp.kind = "Summary"
          /\ Finished(k)
          /\ \E n \in DOMAIN Pods(futures[k]) : ~HasIdentity(Pods(futures[k])[n]) )
        => /\ futures[k].pc = "done"
           /\ \A n \in DOMAIN Pods(futures[k]) :
                 LET pod == Pods(futures[k])[n]
                 IN HasIdentity(pod) =>
                       /\ Count(ephemeral_storage_metric,
                                PodLabels(futures[k].node.name, pod)) >= 1
                       /\ Count(pod_cpu_usage_metric,
                                PodLabels(futures[k].node.name, pod)) >= 1
           /\ ( /\ Ended(c)
                /\ \A i \in UnitsOf(c) :
                      futures[i].resp.kind = "Summary" \/ ~IsReady(futures[i].node) )
              => Emitted(c)

(***************************************************************************)
(* C8: a collect() cycle over a node list with zero items completes        *)
(* without raising and yields the three collections, all empty.            *)
(***************************************************************************)
C8_ZeroNodesEmitsEmpty ==
    \A c \in Cycles :
        (Ended(c) /\ Len(gen[c].nodes) = 0)
        => /\ Emitted(c)
           /\ gen[c].out = <<<<>>, <<>>, <<>>>>

(***************************************************************************)
(* C9: for a node that is not Ready (no condition of type Ready, or Ready  *)
(* with a status other than "True") no fetch is issued, and no series in   *)
(* any collection its cycle yields carries its node name.                  *)
(***************************************************************************)
C9_NotReadyNodeExcluded ==
    \A c \in Cycles : \A i \in UnitsOf(c) :
        ~IsReady(futures[i].node)
        => /\ futures[i].resp = NoResp
           /\ Excluded(c, i)

(***************************************************************************)
(* C10: join barrier: a cycle yields its first collection only when every  *)
(* unit it dispatched is over, and once the cycle has ended, by yielding   *)
(* or by raising, none of its units is still running.                      *)
(***************************************************************************)
C10_JoinBarrier ==
    \A c \in Cycles :
        /\ Len(gen[c].out) >= 1 => \A i \in UnitsOf(c) : Finished(i)
        /\ Ended(c) => \A i \in UnitsOf(c) : Finished(i)

(***************************************************************************)
(* C11: at the Emitted state of a cycle, every Ready node whose fetch      *)
(* returned a summary with a pods list is represented: each pod of it that *)
(* carries an identity has a series labelled (node, namespace, pod) in the *)
(* yielded ephemeral-storage collection and in the yielded pod-CPU         *)
(* collection, whatever happened on the other nodes.                       *)
(***************************************************************************)
C11_ReadyNodesRepresented ==
    \A c \in Cycles : Emitted(c) =>
        \A i \in UnitsOf(c) : futures[i].resp.kind = "Summary" =>
            \A n \in DOMAIN Pods(futures[i]) :
                LET pod == Pods(futures[i])[n]
                    labels == PodLabels(futures[i].node.name, pod)
                IN HasIdentity(pod) =>
                      /\ Count(gen[c].out[1], labels) >= 1
                      /\ Count(gen[c].out[2], labels) >= 1

\* an emitted cycle with a two-pod summary on one node and a failed fetch on another
C11_Witness ==
    \E c \in Cycles : \E i \in UnitsOf(c) : \E k \in UnitsOf(c) :
        /\ Emitted(c)
        /\ futures[i].resp.kind = "Summary"
        /\ Len(Pods(futures[i])) = 2
        /\ Pods(futures[i])[1] # Pods(futures[i])[2]
        /\ futures[k].resp.kind \in {"TransportError", "NoPodsKey"}

HasSample(metric, labels, value) ==
    \E n \in DOMAIN metric : metric[n].labels = labels /\ metric[n].value = value

\* v is the quotient nano / 1000000000
IsCores(v, nano) == v.num = nano /\ v.den = 1000000000

(***************************************************************************)
(* C12: get_pod_metrics substitutes defaults per field independently: for  *)
(* a pod record with a valid podRef the unit ends without raising, the     *)
(* ephemeral-storage series of the pod has the value usedBytes of the      *)
(* payload, or 0 when that key is missing, and the pod-CPU series has the  *)
(* value usageNanoCores / 1e9 of the payload, or 0 when that key is        *)
(* missing, each whatever the other key is.                                *)
(***************************************************************************)
C12_DefaultsPerField ==
    \A i \in DOMAIN futures :
        (Finished(i) /\ futures[i].resp.kind = "Summary") =>
            \A n \in DOMAIN Pods(futures[i]) :
                LET pod == Pods(futures[i])[n]
                    labels == PodLabels(futures[i].node.name, pod)
                IN HasIdentity(pod) =>
                      /\ futures[i].pc = "done"
                      /\ HasSample(ephemeral_storage_metric, labels,
                                   IF Has(pod.eph) THEN Val(pod.eph) ELSE 0)
                      /\ \E s \in DOMAIN pod_cpu_usage_metric :
                            /\ pod_cpu_usage_metric[s].labels = labels
                            /\ IsCores(pod_cpu_usage_metric[s].value,
                                       IF Has(pod.cpu) THEN Val(pod.cpu) ELSE 0)

\* a finished unit whose pod lacks ephemeral-storage and carries cpu
C12_Witness ==
    \E i \in DOMAIN futures :
        /\ futures[i].pc = "done"
        /\ futures[i].resp.kind = "Summary"
        /\ Len(Pods(futures[i])) = 1
        /\ HasIdentity(Pods(futures[i])[1])
        /\ ~Has(Pods(futures[i])[1].eph)
        /\ Has(Pods(futures[i])[1].cpu)
        /\ Len(ephemeral_storage_metric) = 1
        /\ Len(pod_cpu_usage_metric) = 1

(***************************************************************************)
(* C13: a pod record with a valid podRef and no containers key does not    *)
(* stop its unit: the pod's ephemeral-storage and pod-CPU series are       *)
(* emitted, and the container-CPU collection holds no series of that pod.  *)
(***************************************************************************)
C13_NoContainersKey ==
    \A i \in DOMAIN futures :
        (Finished(i) /\ futures[i].resp.kind = "Summary") =>
            \A n \in DOMAIN Pods(futures[i]) :
                LET pod == Pods(futures[i])[n]
                    labels == PodLabels(futures[i].node.name, pod)
                IN (HasIdentity(pod) /\ ~Has(pod.containers)) =>
                      /\ futures[i].pc = "done"
                      /\ Count(ephemeral_storage_metric, labels) >= 1
                      /\ Count(pod_cpu_usage_metric, labels) >= 1
                      /\ \A s \in DOMAIN container_cpu_usage_metric :
                            SubSeq(container_cpu_usage_metric[s].labels, 1, 3) # labels

\* a finished unit whose only pod has an identity and no containers key
C13_Witness ==
    \E i \in DOMAIN futures :
        /\ futures[i].pc = "done"
        /\ futures[i].resp.kind = "Summary"
        /\ Len(Pods(futures[i])) = 1
        /\ HasIdentity(Pods(futures[i])[1])
        /\ ~Has(Pods(futures[i])[1].containers)
        /\ Len(ephemeral_storage_metric) = 1
        /\ Len(pod_cpu_usage_metric) = 1
        /\ container_cpu_usage_metric = <<>>

\* labels is the node name followed by n - 1 payload labels, none of them null
CompleteLabels(labels, n) ==
    /\ Len(labels) = n
    /\ \A k \in 2..Len(labels) : labels[k] # None

(***************************************************************************)
(* C14: in every reachable state every series of the three collections     *)
(* carries a complete label set with no null label: node, namespace and    *)
(* pod in the pod-level collections, and container as a fourth label in    *)
(* the container collection, also when the payload carries a podRef.name,  *)
(* a podRef.namespace or a container name that is present but null.        *)
(***************************************************************************)
C14_LabelsCompleteNonNull ==
    /\ \A s \in DOMAIN ephemeral_storage_metric :
          CompleteLabels(ephemeral_storage_metric[s].labels, 3)
    /\ \A s \in DOMAIN pod_cpu_usage_metric :
          CompleteLabels(pod_cpu_usage_metric[s].labels, 3)
    /\ \A s \in DOMAIN container_cpu_usage_metric :
          CompleteLabels(container_cpu_usage_metric[s].labels, 4)

ReadyNodes(c) == {n \in DOMAIN gen[c].nodes : IsReady(gen[c].nodes[n])}
Fetched(i) == futures[i].resp # NoResp

PodInserts(c, l) ==
    {<<i, n>> \in UnitsOf(c) \X (1..MaxPods) :
        /\ n \in DOMAIN Pods(futures[i])
        /\ HasIdentity(Pods(futures[i])[n])
        /\ PodLabels(futures[i].node.name, Pods(futures[i])[n]) = l}
ContainerInserts(c, l, ct) ==
    {p \in PodInserts(c, l) : ct \in ContainerNames(Pods(futures[p[1]])[p[2]])}
PodLabelsOf(c) ==
    {PodLabels(futures[i].node.name, Pods(futures[i])[n]) :
        <<i, n>> \in {p \in UnitsOf(c) \X (1..MaxPods) :
                         /\ p[2] \in DOMAIN Pods(futures[p[1]])
                         /\ HasIdentity(Pods(futures[p[1]])[p[2]])}}
EqualsInserts(c, metric) ==
    \A l \in LabelsIn(metric) \cup PodLabelsOf(c) :
        Count(metric, l) = Cardinality(PodInserts(c, l))
EqualsContainerInserts(c, metric) ==
    /\ \A l \in PodLabelsOf(c) : \A ct \in {"app", "sidecar"} :
          Count(metric, l \o <<ct>>) = Cardinality(ContainerInserts(c, l, ct))
    /\ \A l \in LabelsIn(metric) : SubSeq(l, 1, 3) \in PodLabelsOf(c)

(***************************************************************************)
(* C16: under every interleaving of the per-node units of one cycle, once  *)
(* the units of the running cycle are joined each accumulated collection   *)
(* equals the union of the contributions of that cycle's units, each       *)
(* insert there once, none lost and none duplicated, and no two units of   *)
(* the cycle carry the same node name, so that they never write the same   *)
(* label tuple.                                                            *)
(***************************************************************************)
C16_CollectionsEqualUnitInserts ==
    \A c \in Cycles :
        c = cycle /\ gen[c].pc = "AllJoined" =>
            /\ EqualsInserts(c, ephemeral_storage_metric)
            /\ EqualsInserts(c, pod_cpu_usage_metric)
            /\ EqualsContainerInserts(c, container_cpu_usage_metric)
            /\ \A i, k \in UnitsOf(c) :
                  i # k => futures[i].node.name # futures[k].node.name

\* unit i has called get_pod_metrics on the pod entry it stands at
Parsed(i) ==
    /\ futures[i].resp.kind = "Summary"
    /\ futures[i].idx \in DOMAIN Pods(futures[i])
    /\ futures[i].pc \in {"cpu", "container"}
Complete(container) == Has(container.name) /\ Has(container.cpu)

(***************************************************************************)
(* C17: for every pod record, each entry of the container mapping that     *)
(* get_pod_metrics returns corresponds to a container of the payload that  *)
(* has both a name and cpu.usageNanoCores, with value usageNanoCores /     *)
(* 1e9; no entry is zero-valued on account of a container lacking its name *)
(* or usage, and when the containers list is absent, or malformed from its *)
(* first entry on, the mapping is empty.                                   *)
(***************************************************************************)
C17_ContainerMapping ==
    \A i \in DOMAIN futures :
        Parsed(i) =>
            LET pod == Pods(futures[i])[futures[i].idx]
                mapping == Metrics(futures[i]).container_usage_cores
                listed == IF Has(pod.containers) THEN Val(pod.containers) ELSE <<>>
            IN /\ \A e \in DOMAIN mapping :
                     /\ \E n \in DOMAIN listed :
                           /\ Complete(listed[n])
                           /\ Val(listed[n].name) = mapping[e][1]
                           /\ IsCores(mapping[e][2], Val(listed[n].cpu))
                     /\ mapping[e][2].num # 0
               /\ ~Has(pod.containers) => mapping = <<>>
               /\ listed # <<>> /\ ~Complete(listed[1]) => mapping = <<>>

\* a parsed pod whose first container is complete and whose second lacks
\* its usage: the mapping holds the first container alone
C17_Witness ==
    \E i \in DOMAIN futures :
        /\ Parsed(i)
        /\ LET pod == Pods(futures[i])[futures[i].idx]
           IN /\ Has(pod.containers)
              /\ Len(Val(pod.containers)) = 2
              /\ Complete(Val(pod.containers)[1])
              /\ Has(Val(pod.containers)[2].name)
              /\ ~Has(Val(pod.containers)[2].cpu)
              /\ Len(Metrics(futures[i]).container_usage_cores) = 1

PodPrefix(labels) == SubSeq(labels, 1, 3)

(***************************************************************************)
(* C18: at the Emitted state of any cycle, after any number of earlier     *)
(* cycles, the yielded ephemeral-storage and pod-CPU collections hold the  *)
(* same multiset of (node, namespace, pod) label tuples, and every series  *)
(* of the yielded container-CPU collection has a (node, namespace, pod)    *)
(* prefix that appears in both pod-level collections.                      *)
(***************************************************************************)
C18_CollectionsConsistent ==
    \A c \in Cycles :
        Emitted(c) =>
            /\ SameLabels(gen[c].out[1], gen[c].out[2])
            /\ \A n \in DOMAIN gen[c].out[3] :
                  /\ PodPrefix(gen[c].out[3][n].labels) \in LabelsIn(gen[c].out[1])
                  /\ PodPrefix(gen[c].out[3][n].labels) \in LabelsIn(gen[c].out[2])

\* a second cycle emitted after an emitted first one, with pod-level and
\* container series in what it yields
C18_Witness ==
    /\ Emitted(1)
    /\ Emitted(2)
    /\ Len(gen[2].out[1]) >= 2
    /\ Len(gen[2].out[3]) >= 2

Running(c) == gen[c].pc \in {"NodesListed", "Dispatching", "Joining", "AllJoined"}

(***************************************************************************)
(* C19: when two collect() cycles run concurrently on the one collector,   *)
(* each cycle waits only on the units it dispatched itself, and what it    *)
(* has yielded when it is Emitted while the other is still running is      *)
(* exactly the series produced by its own units, none of the other cycle's *)
(* series mixed in and none duplicated.                                    *)
(***************************************************************************)
C19_ConcurrentCyclesIsolated ==
    \A c, d \in Cycles :
        c # d /\ Running(d) =>
            /\ gen[c].pc = "Joining" /\ gen[c].j \in DOMAIN futures =>
                  futures[gen[c].j].cycle = c
            /\ Emitted(c) =>
                  /\ EqualsInserts(c, gen[c].out[1])
                  /\ EqualsInserts(c, gen[c].out[2])
                  /\ EqualsContainerInserts(c, gen[c].out[3])

====
